---- MODULE Spec2Model ----
(***************************************************************************)
(* Connectivity-health monitor of the Dashboard component                  *)
(* (src/app/page.tsx): periodic polling of /api/config/status, retry with  *)
(* exponential backoff, manual refresh and visibility pause/resume.        *)
(*                                                                         *)
(* The component is a React function component.  Two facts of the React    *)
(* execution model shape every action below:                               *)
(*  - fetchConfigStatus is memoised with useCallback(..., [retryCount]):   *)
(*    each instance of the function is a closure over the retryCount of    *)
(*    the render that created it, and the name fetchConfigStatus inside    *)
(*    that closure denotes the closure itself.  An in-flight request and   *)
(*    a pending retry timer therefore carry the retryCount they captured   *)
(*    (field rc), which may differ from the current state.                 *)
(*  - the polling effect depends on [fetchConfigStatus]: whenever a        *)
(*    render commits a changed retryCount the effect's cleanup runs and    *)
(*    the effect body runs again (Rerender).                               *)
(* Time is discrete; one Tick is the greatest common divisor of the two    *)
(* timer periods, so every timer deadline falls on a tick.  A timer holds  *)
(* the time left until it fires, a request the time it has been in flight. *)
(***************************************************************************)
EXTENDS Integers, FiniteSets, Bags, TLC

\* ---- program constants (src/app/page.tsx:436-438) ----
POLL_INTERVAL == 5000
MAX_RETRIES == 3
RETRY_DELAY == 2000

\* ---- bounds of the model ----
MaxClock == 1        \* the clock is read up to this many ticks; later it reads the same
MaxLatency == 0      \* longest request, in ticks (0: answered within the tick)
MaxFailures == 2     \* Spec: requests the endpoint may fail in one behaviour
MaxUserEvents == 1   \* Spec: refresh clicks and tab hides in one behaviour
OutageFailures == 6  \* SpecOutage: requests the endpoint may fail
OutageUserEvents == 1 \* SpecOutage: refresh clicks and tab hides
DataFailures == 1    \* SpecData: requests the endpoint may fail
DataUserEvents == 1  \* SpecData: refresh clicks and tab hides
RecoverFailures == 13 \* SpecRecover: longest run of failures before the endpoint recovers
LongClock == 15      \* SpecRecover, SpecScenario: ticks up to which the clock is read
ClickFailures == 2    \* SpecClicks: requests the endpoint may fail
ClickEvents == 3      \* SpecClicks: refresh clicks the user may make
UnattendedFailures == 8 \* SpecUnattended: longest run of failures before the endpoint recovers

\* null of each type: a string, a timer id (ids are positive, 0 is falsy), a Date,
\* a ConfigStatus
NULL == "null"
NoTimer == 0
NoDate == 0 - 1
NoStatus == [absent |-> TRUE]

RECURSIVE GCD(_, _)
GCD(a, b) == IF b = 0 THEN a ELSE GCD(b, a % b)

\* granularity of the clock: every deadline is a multiple of it
TickMs == GCD(POLL_INTERVAL, RETRY_DELAY)

\* ConfigStatus payloads the endpoint may return
Payloads ==
  { [gemini_api_key_set |-> TRUE, db_url_set |-> TRUE, is_valid |-> TRUE],
    [gemini_api_key_set |-> TRUE, db_url_set |-> FALSE, is_valid |-> FALSE] }

\* the ways one request can fail: fetch rejects, !response.ok, response.json() rejects
FailureKinds == {"transport", "http", "parse"}

\* err.message of the Error caught for each kind of failure
ErrorMessage(kind) ==
  CASE kind = "transport" -> "Failed to fetch"
    [] kind = "http" -> "HTTP error! status"
    [] kind = "parse" -> "Unexpected token"

VARIABLES
  phase,            \* "new" (rendered, effect not yet run), "mounted", "unmounted"
  hidden,           \* document.hidden
  now,              \* clock, ms (Date.now()), read up to MaxClock ticks
  configStatus,     \* useState: ConfigStatus | null
  isLoading,        \* useState
  lastUpdate,       \* useState: Date | null
  isRefreshing,     \* useState
  retryCount,       \* useState
  error,            \* useState: string | null
  intervalRef,      \* useRef: id of the interval last armed | null
  retryTimeoutRef,  \* useRef: id of the timeout last scheduled | null
  timers,           \* armed timers of the host: [id, kind, rc, due, ord, refreshed]
  inflight,         \* bag of requests in flight: [rc, manual, age]
  failuresLeft,     \* failures the endpoint may still produce
  eventsLeft,       \* refresh clicks and tab hides the user may still make
  ev                \* history: the last event, [type, rc, manual, late, payload]

state == <<configStatus, isLoading, lastUpdate, isRefreshing, retryCount, error>>
host == <<intervalRef, retryTimeoutRef, timers, inflight>>
env == <<failuresLeft, eventsLeft>>
vars == <<phase, hidden, now, state, host, env, ev>>

\* ---- the host side: timers, refs and requests, threaded through a record ----
Host == [timers |-> timers, intervalRef |-> intervalRef,
         retryTimeoutRef |-> retryTimeoutRef, inflight |-> inflight]

SetHost(h) ==
  /\ timers' = h.timers
  /\ intervalRef' = h.intervalRef
  /\ retryTimeoutRef' = h.retryTimeoutRef
  /\ inflight' = h.inflight

\* the id setTimeout / setInterval returns: one that names no armed timer and that no
\* handle still holds (the host never hands out an id twice; ids are only compared
\* for equality, so the least unused one stands for the next one)
FreshId(h) ==
  LET used == {t.id : t \in h.timers} \cup {h.intervalRef, h.retryTimeoutRef}
  IN CHOOSE i \in 1..(Cardinality(used) + 1) :
       i \notin used /\ \A j \in 1..(i - 1) : j \in used

RetryTimers(ts) == {t \in ts : t.kind = "retry"}
IntervalTimers(ts) == {t \in ts : t.kind = "interval"}

\* clearInterval / clearTimeout: a no-op on an id that is not armed
ClearTimer(h, id) == [h EXCEPT !.timers = {t \in @ : t.id # id}]

\* the request part of fetchConfigStatus: one GET issued by the closure over rc
IssueFetch(h, rc, manual) ==
  [h EXCEPT !.inflight = @ (+) SetToBag({[rc |-> rc, manual |-> manual, age |-> 0]})]

\* a backoff that does not grow
RetryDelayFixed(rc) == RETRY_DELAY

\* const delay = RETRY_DELAY * Math.pow(2, retryCount)
RetryDelayOf(rc) == RETRY_DELAY * 2^rc

\* the place of a new timeout among the pending ones armed in this same tick with the
\* same delay: the host fires timeouts of equal delay in the order they were armed
NextOrd(h, rc) ==
  LET same == {u \in RetryTimers(h.timers) : u.rc = rc /\ u.due = RetryDelayOf(rc)}
  IN IF same = {} THEN 0
     ELSE 1 + (CHOOSE n \in {u.ord : u \in same} : \A u \in same : u.ord <= n)

\* retryTimeoutRef.current = setTimeout(..., delay)
ScheduleRetry(h, rc) ==
  [h EXCEPT !.timers = @ \cup {[id |-> FreshId(h), kind |-> "retry", rc |-> rc,
                                 due |-> RetryDelayOf(rc), ord |-> NextOrd(h, rc),
                                 refreshed |-> FALSE]},
            !.retryTimeoutRef = FreshId(h)]

\* a startPolling that arms without clearing the interval it armed before
StartPollingNoClear(h, rc) ==
  [h EXCEPT !.timers = @ \cup {[id |-> FreshId(h), kind |-> "interval", rc |-> rc,
                                 due |-> POLL_INTERVAL, ord |-> 0,
                                 refreshed |-> FALSE]},
            !.intervalRef = FreshId(h)]

\* startPolling, as defined by the effect run whose fetchConfigStatus closes over rc
StartPolling(h, rc) ==
  LET h1 == IF h.intervalRef # NoTimer THEN ClearTimer(h, h.intervalRef) ELSE h
  IN [h1 EXCEPT !.timers = @ \cup {[id |-> FreshId(h), kind |-> "interval", rc |-> rc,
                                     due |-> POLL_INTERVAL, ord |-> 0,
                                     refreshed |-> FALSE]},
                !.intervalRef = FreshId(h)]

\* the function the effect returns
EffectCleanup(h) ==
  LET h1 == IF h.intervalRef # NoTimer THEN ClearTimer(h, h.intervalRef) ELSE h
  IN IF h1.retryTimeoutRef # NoTimer THEN ClearTimer(h1, h1.retryTimeoutRef) ELSE h1

\* the effect body: initial fetch, startPolling(), addEventListener
EffectBody(h, rc) == StartPolling(IssueFetch(h, rc, FALSE), rc)

\* a render commits retryCount newRc after oldRc: a changed retryCount gives a new
\* fetchConfigStatus, so the effect is torn down and run again
Rerender(h, oldRc, newRc) ==
  IF oldRc # newRc THEN EffectBody(EffectCleanup(h), newRc) ELSE h

\* the last event: its kind, the retryCount captured by the closure that ran, whether
\* that was a manual refresh; late: the retry timer that fired had been pending when a
\* manual refresh was made; payload: the body a successful request received
Event(type, rc, manual) ==
  [type |-> type, rc |-> rc, manual |-> manual, late |-> FALSE, payload |-> NoStatus]

\* the component after its first render, before its effect has run; the endpoint
\* may fail `failures` requests and the user may click or hide `events` times
Start(failures, events) ==
  /\ phase = "new"
  /\ hidden = FALSE
  /\ now = 0
  /\ configStatus = NoStatus
  /\ isLoading = TRUE
  /\ lastUpdate = NoDate
  /\ isRefreshing = FALSE
  /\ retryCount = 0
  /\ error = NULL
  /\ intervalRef = NoTimer
  /\ retryTimeoutRef = NoTimer
  /\ timers = {}
  /\ inflight = EmptyBag
  /\ failuresLeft = failures
  /\ eventsLeft = events
  /\ ev = Event("init", 0, FALSE)

\* first run of the effect after the first render
Mount ==
  /\ phase = "new"
  /\ phase' = "mounted"
  /\ SetHost(EffectBody(Host, retryCount))
  /\ ev' = Event("mount", retryCount, FALSE)
  /\ UNCHANGED <<hidden, now, state, env>>

\* ---- what one completed request does to the component state ----
\* a success branch that forgets setRetryCount(0)
SuccessStateNoReset(f, payload) ==
  [configStatus |-> payload, lastUpdate |-> now, isLoading |-> FALSE,
   error |-> NULL, retryCount |-> retryCount,
   isRefreshing |-> IF f.manual THEN FALSE ELSE isRefreshing]

\* a success branch that does not store the body it received
SuccessStateDropsPayload(f, payload) ==
  [configStatus |-> configStatus, lastUpdate |-> now, isLoading |-> FALSE,
   error |-> NULL, retryCount |-> 0,
   isRefreshing |-> IF f.manual THEN FALSE ELSE isRefreshing]

\* a success branch that forgets setError(null)
SuccessStateKeepsError(f, payload) ==
  [configStatus |-> payload, lastUpdate |-> now, isLoading |-> FALSE,
   error |-> error, retryCount |-> 0,
   isRefreshing |-> IF f.manual THEN FALSE ELSE isRefreshing]

\* lines 470-479: the response was ok and its body parsed to payload
SuccessState(f, payload) ==
  [configStatus |-> payload, lastUpdate |-> now, isLoading |-> FALSE,
   error |-> NULL, retryCount |-> 0,
   isRefreshing |-> IF f.manual THEN FALSE ELSE isRefreshing]

\* a fetch whose response.json() is awaited outside the try: a malformed body escapes
\* the catch branch, and no state is set
FailureStateParseUncaught(f, kind) ==
  IF kind = "parse"
  THEN [configStatus |-> configStatus, lastUpdate |-> lastUpdate,
        isLoading |-> isLoading, error |-> error, retryCount |-> retryCount,
        isRefreshing |-> isRefreshing]
  ELSE [configStatus |-> IF f.rc < MAX_RETRIES THEN configStatus ELSE NoStatus,
        lastUpdate |-> lastUpdate,
        isLoading |-> IF f.rc < MAX_RETRIES THEN isLoading ELSE FALSE,
        error |-> ErrorMessage(kind), retryCount |-> retryCount,
        isRefreshing |-> IF f.manual THEN FALSE ELSE isRefreshing]

\* a catch branch that clears the status on every failure
FailureStateClearsStatus(f, kind) ==
  [configStatus |-> NoStatus,
   lastUpdate |-> lastUpdate,
   isLoading |-> IF f.rc < MAX_RETRIES THEN isLoading ELSE FALSE,
   error |-> ErrorMessage(kind), retryCount |-> retryCount,
   isRefreshing |-> IF f.manual THEN FALSE ELSE isRefreshing]

\* a catch branch that ends the loading state on every failure
FailureStateEndsLoading(f, kind) ==
  [configStatus |-> IF f.rc < MAX_RETRIES THEN configStatus ELSE NoStatus,
   lastUpdate |-> lastUpdate,
   isLoading |-> FALSE,
   error |-> ErrorMessage(kind), retryCount |-> retryCount,
   isRefreshing |-> IF f.manual THEN FALSE ELSE isRefreshing]

\* a catch branch that forgets setIsRefreshing(false)
FailureStateKeepsRefreshing(f, kind) ==
  [configStatus |-> IF f.rc < MAX_RETRIES THEN configStatus ELSE NoStatus,
   lastUpdate |-> lastUpdate,
   isLoading |-> IF f.rc < MAX_RETRIES THEN isLoading ELSE FALSE,
   error |-> ErrorMessage(kind), retryCount |-> retryCount,
   isRefreshing |-> isRefreshing]

\* lines 480-500: the catch branch; f.rc is the retryCount the closure captured
FailureState(f, kind) ==
  [configStatus |-> IF f.rc < MAX_RETRIES THEN configStatus ELSE NoStatus,
   lastUpdate |-> lastUpdate,
   isLoading |-> IF f.rc < MAX_RETRIES THEN isLoading ELSE FALSE,
   error |-> ErrorMessage(kind), retryCount |-> retryCount,
   isRefreshing |-> IF f.manual THEN FALSE ELSE isRefreshing]

\* lines 489-496: the retry is scheduled whether or not the component is mounted
FailureHost(h, f) == IF f.rc < MAX_RETRIES THEN ScheduleRetry(h, f.rc) ELSE h

\* a render after the first setter of a completion, before the others have run
SetStateErrorFirst(s) ==
  IF phase = "mounted"
  THEN /\ error' = s.error
       /\ UNCHANGED <<configStatus, lastUpdate, isLoading, retryCount, isRefreshing>>
  ELSE UNCHANGED state

\* the setters a completion calls run in one continuation and are applied in one batch;
\* setState on an unmounted component is a no-op
SetState(s) ==
  IF phase = "mounted"
  THEN /\ configStatus' = s.configStatus
       /\ lastUpdate' = s.lastUpdate
       /\ isLoading' = s.isLoading
       /\ error' = s.error
       /\ retryCount' = s.retryCount
       /\ isRefreshing' = s.isRefreshing
  ELSE UNCHANGED state

Remove(h, f) == [h EXCEPT !.inflight = @ (-) SetToBag({f})]

\* a request in flight completes with a parsed payload
Success(f, payload) ==
  /\ BagIn(f, inflight)
  /\ SetState(SuccessState(f, payload))
  /\ SetHost(IF phase = "mounted" THEN Rerender(Remove(Host, f), retryCount, 0)
                                    ELSE Remove(Host, f))
  /\ ev' = [Event("success", f.rc, f.manual) EXCEPT !.payload = payload]
  /\ UNCHANGED <<phase, hidden, now, env>>

\* a request in flight fails: transport error, non-2xx status or malformed body
Failure(f, kind) ==
  /\ BagIn(f, inflight)
  /\ failuresLeft > 0
  /\ failuresLeft' = failuresLeft - 1
  /\ SetState(FailureState(f, kind))
  /\ SetHost(FailureHost(Remove(Host, f), f))
  /\ ev' = Event("failure", f.rc, f.manual)
  /\ UNCHANGED <<phase, hidden, now, eventsLeft>>

\* ---- timer callbacks ----
\* lines 518-520: the interval of the effect run that closed over t.rc fires
IntervalFire(t) ==
  /\ t \in IntervalTimers(timers)
  /\ t.due = 0
  /\ SetHost(IssueFetch([Host EXCEPT !.timers = (@ \ {t}) \cup
                           {[t EXCEPT !.due = POLL_INTERVAL]}], t.rc, FALSE))
  /\ ev' = Event("poll", t.rc, FALSE)
  /\ UNCHANGED <<phase, hidden, now, state, env>>

\* lines 493-496: setRetryCount(prev => prev + 1); fetchConfigStatus() of the closure
\* that scheduled the timer; the render that follows re-runs the effect
RetryFire(t) ==
  /\ t \in RetryTimers(timers)
  /\ t.due = 0
  /\ \A u \in RetryTimers(timers) : (u.due = 0 /\ u.rc = t.rc) => u.ord >= t.ord
  /\ LET h == IssueFetch(ClearTimer(Host, t.id), t.rc, FALSE)
     IN IF phase = "mounted"
        THEN /\ retryCount' = retryCount + 1
             /\ SetHost(Rerender(h, retryCount, retryCount + 1))
        ELSE /\ retryCount' = retryCount
             /\ SetHost(h)
  /\ ev' = [Event("retry", t.rc, FALSE) EXCEPT !.late = t.refreshed]
  /\ UNCHANGED <<phase, hidden, now, configStatus, isLoading, lastUpdate,
                 isRefreshing, error, env>>

\* ---- user and host events ----
\* a refresh button that is not disabled while a refresh is under way
HandleManualRefreshEnabled ==
  /\ phase = "mounted"
  /\ ~hidden
  /\ eventsLeft > 0
  /\ eventsLeft' = eventsLeft - 1
  /\ isRefreshing' = TRUE
  /\ retryCount' = 0
  /\ LET h == Rerender(IssueFetch(Host, retryCount, TRUE), retryCount, 0)
     IN SetHost([h EXCEPT !.timers = {IF t.kind = "retry"
                                       THEN [t EXCEPT !.refreshed = TRUE] ELSE t :
                                       t \in @}])
  /\ ev' = Event("refresh", retryCount, TRUE)
  /\ UNCHANGED <<phase, hidden, now, configStatus, isLoading, lastUpdate, error,
                 failuresLeft>>

\* lines 504-507 through the button of lines 846-851 (disabled while isRefreshing):
\* setRetryCount(0); fetchConfigStatus(true) of the current closure
HandleManualRefresh ==
  /\ phase = "mounted"
  /\ ~hidden
  /\ ~isRefreshing
  /\ eventsLeft > 0
  /\ eventsLeft' = eventsLeft - 1
  /\ isRefreshing' = TRUE
  /\ retryCount' = 0
  /\ LET h == Rerender(IssueFetch(Host, retryCount, TRUE), retryCount, 0)
     IN SetHost([h EXCEPT !.timers = {IF t.kind = "retry"
                                       THEN [t EXCEPT !.refreshed = TRUE] ELSE t :
                                       t \in @}])
  /\ ev' = Event("refresh", retryCount, TRUE)
  /\ UNCHANGED <<phase, hidden, now, configStatus, isLoading, lastUpdate, error,
                 failuresLeft>>

\* a hidden branch that also drops the displayed status
HideClearsStatus ==
  /\ phase = "mounted"
  /\ ~hidden
  /\ eventsLeft > 0
  /\ eventsLeft' = eventsLeft - 1
  /\ hidden' = TRUE
  /\ SetHost(IF intervalRef # NoTimer
             THEN [ClearTimer(Host, intervalRef) EXCEPT !.intervalRef = NoTimer]
             ELSE Host)
  /\ configStatus' = NoStatus
  /\ ev' = Event("hide", retryCount, FALSE)
  /\ UNCHANGED <<phase, now, isLoading, lastUpdate, isRefreshing, retryCount, error,
                 failuresLeft>>

\* lines 524-530: visibilitychange with document.hidden
Hide ==
  /\ phase = "mounted"
  /\ ~hidden
  /\ eventsLeft > 0
  /\ eventsLeft' = eventsLeft - 1
  /\ hidden' = TRUE
  /\ SetHost(IF intervalRef # NoTimer
             THEN [ClearTimer(Host, intervalRef) EXCEPT !.intervalRef = NoTimer]
             ELSE Host)
  /\ ev' = Event("hide", retryCount, FALSE)
  /\ UNCHANGED <<phase, now, state, failuresLeft>>

\* a visible branch that resumes polling without the immediate fetch
ShowNoFetch ==
  /\ phase = "mounted"
  /\ hidden
  /\ hidden' = FALSE
  /\ SetHost(StartPolling(Host, retryCount))
  /\ ev' = Event("show", retryCount, FALSE)
  /\ UNCHANGED <<phase, now, state, env>>

\* lines 531-535: visibilitychange with the document visible again
Show ==
  /\ phase = "mounted"
  /\ hidden
  /\ hidden' = FALSE
  /\ SetHost(StartPolling(IssueFetch(Host, retryCount, FALSE), retryCount))
  /\ ev' = Event("show", retryCount, FALSE)
  /\ UNCHANGED <<phase, now, state, env>>

\* lines 541-549: the component unmounts and the effect's cleanup runs
Unmount ==
  /\ phase = "mounted"
  /\ phase' = "unmounted"
  /\ SetHost(EffectCleanup(Host))
  /\ ev' = Event("unmount", retryCount, FALSE)
  /\ UNCHANGED <<hidden, now, state, env>>

\* every request in flight is one tick older
Aged(b) ==
  LET older(f) == [f EXCEPT !.age = @ + 1]
      from(g) == CHOOSE f \in BagToSet(b) : older(f) = g
  IN [g \in {older(f) : f \in BagToSet(b)} |-> b[from(g)]]

\* time passes: no timer is overdue and no request outlives MaxLatency; the clock is
\* read up to `horizon` ticks
TickTo(horizon) ==
  /\ \A t \in timers : t.due > 0
  /\ \A f \in BagToSet(inflight) : f.age < MaxLatency
  /\ now' = IF now < horizon * TickMs THEN now + TickMs ELSE now
  /\ timers' = {[t EXCEPT !.due = @ - TickMs] : t \in timers}
  /\ inflight' = Aged(inflight)
  /\ ev' = Event("tick", 0, FALSE)
  /\ UNCHANGED <<phase, hidden, state, intervalRef, retryTimeoutRef, env>>

Tick == TickTo(MaxClock)

\* one step, with an endpoint that fails in the ways K and answers with the payloads P
Step(K, P) ==
  \/ Mount
  \/ \E f \in BagToSet(inflight) : \E p \in P : Success(f, p)
  \/ \E f \in BagToSet(inflight) : \E k \in K : Failure(f, k)
  \/ \E t \in timers : IntervalFire(t)
  \/ \E t \in timers : RetryFire(t)
  \/ HandleManualRefresh
  \/ Hide
  \/ Show
  \/ Unmount
  \/ Tick

ValidPayload == [gemini_api_key_set |-> TRUE, db_url_set |-> TRUE, is_valid |-> TRUE]

\* the monitor against an endpoint that answers non-2xx now and then
Init == Start(MaxFailures, MaxUserEvents)
Next == Step({"http"}, {ValidPayload})
Spec == Init /\ [][Next]_vars

\* the monitor through an outage: the endpoint is unreachable for a long run of requests
InitOutage == Start(OutageFailures, OutageUserEvents)
NextOutage == Step({"transport"}, {ValidPayload})
SpecOutage == InitOutage /\ [][NextOutage]_vars

\* the monitor against every kind of failure and every payload
InitData == Start(DataFailures, DataUserEvents)
NextData == Step(FailureKinds, Payloads)
SpecData == InitData /\ [][NextData]_vars

\* the monitor left alone by the user while the endpoint is down and then recovers:
\* the requests fail until the failures are used up, and succeed from then on
NextRecover ==
  \/ Mount
  \/ \E f \in BagToSet(inflight) : failuresLeft = 0 /\ Success(f, ValidPayload)
  \/ \E f \in BagToSet(inflight) : Failure(f, "transport")
  \/ \E t \in timers : IntervalFire(t)
  \/ \E t \in timers : RetryFire(t)
  \/ Unmount
  \/ TickTo(LongClock)

\* an outage of any length up to RecoverFailures failed requests
InitRecover == \E n \in 0..RecoverFailures : Start(n, 0)
SpecRecover == InitRecover /\ [][NextRecover]_vars

\* the outage of exactly MAX_RETRIES failed requests
InitScenario == Start(MAX_RETRIES, 0)
SpecScenario == InitScenario /\ [][NextRecover]_vars

\* the monitor in a visible tab with a user who clicks Refresh again and again
NextClicks ==
  \/ Mount
  \/ \E f \in BagToSet(inflight) : Success(f, ValidPayload)
  \/ \E f \in BagToSet(inflight) : Failure(f, "http")
  \/ \E t \in timers : IntervalFire(t)
  \/ \E t \in timers : RetryFire(t)
  \/ HandleManualRefresh
  \/ Tick

InitClicks == Start(ClickFailures, ClickEvents)
SpecClicks == InitClicks /\ [][NextClicks]_vars

\* the monitor unattended, mounted and visible throughout: the requests fail, in any
\* of the three ways, until the failures are used up, and succeed from then on
NextUnattended ==
  \/ Mount
  \/ \E f \in BagToSet(inflight) : failuresLeft = 0 /\ Success(f, ValidPayload)
  \/ \E f \in BagToSet(inflight) : \E k \in FailureKinds : Failure(f, k)
  \/ \E t \in timers : IntervalFire(t)
  \/ \E t \in timers : RetryFire(t)
  \/ Tick

InitUnattended == \E n \in 0..UnattendedFailures : Start(n, 0)
SpecUnattended == InitUnattended /\ [][NextUnattended]_vars

\* the unattended monitor on a host whose event loop keeps running: a due timer
\* fires, a request in flight completes, time passes
SpecLive == InitUnattended /\ [][NextUnattended]_vars /\ WF_vars(NextUnattended)

\* ---- what the status button shows ----
\* lines 589-595: the colour class of the status button
getStatusColor(err, status) ==
  IF err # NULL THEN "text-red-400"
  ELSE IF status = NoStatus THEN "text-white/30"
  ELSE IF status.is_valid THEN "text-green-400"
  ELSE IF status.gemini_api_key_set \/ status.db_url_set THEN "text-yellow-400"
  ELSE "text-red-400"

\* lines 597-602: the icon of the status button
getStatusIcon(loading, refreshing, err, status) ==
  IF loading \/ refreshing THEN "Wifi"
  ELSE IF err # NULL \/ status = NoStatus THEN "WifiOff"
  ELSE IF status.is_valid THEN "Wifi"
  ELSE "AlertCircle"

\* every ConfigStatus the endpoint can send, as far as the render reads it
AllPayloads ==
  [gemini_api_key_set : BOOLEAN, db_url_set : BOOLEAN, is_valid : BOOLEAN]

\* one render of the status button from the current state
Render ==
  /\ ev' = [type |-> "render",
            color |-> getStatusColor(error, configStatus),
            icon |-> getStatusIcon(isLoading, isRefreshing, error, configStatus)]
  /\ UNCHANGED <<phase, hidden, now, state, host, env>>

\* the render alone, from every state of the four values it reads that the monitor
\* can hold (a status is only ever stored together with isLoading = false); the
\* variables the render does not read are those of a monitor at rest
InitRender ==
  /\ phase = "mounted"
  /\ hidden = FALSE
  /\ now = 0
  /\ configStatus \in {NoStatus} \cup AllPayloads
  /\ isLoading \in BOOLEAN
  /\ isLoading => configStatus = NoStatus
  /\ lastUpdate = NoDate
  /\ isRefreshing \in BOOLEAN
  /\ retryCount = 0
  /\ error \in {NULL} \cup {ErrorMessage(k) : k \in FailureKinds}
  /\ intervalRef = NoTimer
  /\ retryTimeoutRef = NoTimer
  /\ timers = {}
  /\ inflight = EmptyBag
  /\ failuresLeft = 0
  /\ eventsLeft = 0
  /\ ev = Event("init", 0, FALSE)
NextRender == Render
SpecRender == InitRender /\ [][NextRender]_vars

\* ======================= the claims =======================

Mounted == phase = "mounted"

\* the retry timers a step has armed
NewRetryTimers == RetryTimers(timers') \ RetryTimers(timers)

C2_TeardownCancelsTimers == ev.type = "unmount" => timers = {}

\* C3: retryCount never exceeds MAX_RETRIES.
C3_RetryCountBounded == retryCount <= MAX_RETRIES

\* C4: the fetch a manual refresh launches evaluates the retry budget with
\* retryCount = 0, whatever retryCount was before.
C4_ManualFetchSeesZero == \A f \in BagToSet(inflight) : f.manual => f.rc = 0

\* C5: when the retry budget is exhausted the status is absent, isLoading is false and
\* no retry timer is pending.
C5_ExhaustedIsIdle ==
  (Mounted /\ ev.type = "failure" /\ ev.rc >= MAX_RETRIES)
    => /\ configStatus = NoStatus
       /\ ~isLoading
       /\ RetryTimers(timers) = {}

\* C6: when the UI becomes hidden the pending retry timer is cancelled.
C6_HideCancelsRetry == ev.type = "hide" => RetryTimers(timers) = {}

\* C7: a retry timer that was pending when a manual refresh was made never fires.
C7_NoLateRetry == ev.type = "retry" => ~ev.late

\* C8: after every successful fetch, automatic or manual, retryCount is 0, error is
\* absent, configStatus is the payload received and isLoading is false.
C8_SuccessResets ==
  (Mounted /\ ev.type = "success")
    => /\ retryCount = 0
       /\ error = NULL
       /\ configStatus = ev.payload
       /\ configStatus \in Payloads
       /\ ~isLoading

\* C8 witness: a request of the closure over retryCount = 1 succeeded with the
\* partially configured payload, after an earlier failure had set an error
C8_Witness ==
  /\ Mounted
  /\ ev.type = "success"
  /\ ev.rc = 1
  /\ failuresLeft < DataFailures
  /\ configStatus.is_valid = FALSE

\* C9: while the UI is hidden no periodic timer is armed.
C9_HiddenPausesPolling == (Mounted /\ hidden) => IntervalTimers(timers) = {}

\* C10: a manual refresh leaves the armed interval timer as it was.
C10_RefreshKeepsInterval ==
  [][ev'.type = "refresh"
       => /\ intervalRef' = intervalRef
          /\ IntervalTimers(timers') = IntervalTimers(timers)]_vars

\* what the status button shows: colour and icon
Shown == <<getStatusColor(error, configStatus),
           getStatusIcon(isLoading, isRefreshing, error, configStatus)>>

\* C11: a failed fetch whose closure observes retryCount < MAX_RETRIES leaves what the
\* status button shows as it was before the failure.
C11_TransientFailureInvisible ==
  [][(ev'.type = "failure" /\ ev'.rc < MAX_RETRIES /\ Mounted)
       => Shown' = Shown]_vars

\* C12: the colour follows the five-way branch: error if an error is present; else
\* unknown if the status is absent; else healthy if is_valid; else partially configured
\* if exactly one of gemini_api_key_set / db_url_set is true; else unconfigured.
C12_FiveWayBranch ==
  ev.type = "render"
    => ev.color =
         IF error # NULL THEN "text-red-400"
         ELSE IF configStatus = NoStatus THEN "text-white/30"
         ELSE IF configStatus.is_valid THEN "text-green-400"
         ELSE IF configStatus.gemini_api_key_set # configStatus.db_url_set
              THEN "text-yellow-400"
         ELSE "text-red-400"

\* C13: after the retry budget is exhausted (status absent, loading over), a poll tick
\* whose fetch fails schedules a retry again instead of being treated as exhausted.
C13_PollAfterExhaustionRetries ==
  [][(/\ Mounted
      /\ ev.type = "poll"
      /\ configStatus = NoStatus /\ ~isLoading
      /\ ev'.type = "failure" /\ ev'.rc = ev.rc /\ ~ev'.manual)
       => NewRetryTimers # {}]_vars

\* the requests in flight that the monitor's own schedule issued
Automatic(b) == [f \in {g \in BagToSet(b) : ~g.manual} |-> b[f]]

\* C14: at most one request issued by the monitor's own schedule (initial fetch, poll
\* tick, retry timer, visibility resume) is in flight at any instant.
C14_OneAutomaticInFlight == BagCardinality(Automatic(inflight)) <= 1

\* C15: a request that completes after teardown, with success or with failure, arms no
\* timer: neither a periodic one nor a retry.
C15_LateResultArmsNothing ==
  [][(phase = "unmounted" /\ ev'.type \in {"success", "failure"})
       => timers' \subseteq timers]_vars

\* C16: at most one periodic timer is armed at any time, and it is the one intervalRef
\* holds.
C16_OneInterval ==
  /\ Cardinality(IntervalTimers(timers)) <= 1
  /\ \A t \in IntervalTimers(timers) : t.id = intervalRef /\ t.due <= POLL_INTERVAL

\* C16 witness: the tab was never hidden, so the interval armed at mount was still
\* armed when a retry timer fired and its render re-ran the effect; the one interval
\* armed now is the one that re-run armed
C16_Witness ==
  /\ Mounted
  /\ ev.type = "retry"
  /\ ~hidden
  /\ eventsLeft = MaxUserEvents
  /\ \E t \in IntervalTimers(timers) :
       /\ IntervalTimers(timers) = {t}
       /\ t.rc = retryCount
       /\ t.due = POLL_INTERVAL
       /\ t.id = intervalRef

C18_LoadingEndsWithFirstCompletion ==
  [][/\ (Mounted /\ ev'.type \in {"success", "failure"}) => ~isLoading'
     /\ ~isLoading => ~isLoading']_vars

\* C18 (amended): isLoading becomes false when a fetch succeeds or when a failed fetch
\* takes the exhausted branch; a failed fetch that still has retry budget, and every
\* other step, leaves it as it is; once false it never becomes true again.
C18_LoadingEndsOnSuccessOrExhaustion ==
  [][/\ (Mounted /\ ev'.type = "success") => ~isLoading'
     /\ (Mounted /\ ev'.type = "failure" /\ ev'.rc >= MAX_RETRIES) => ~isLoading'
     /\ (ev'.type = "failure" /\ ev'.rc < MAX_RETRIES) => isLoading' = isLoading
     /\ ev'.type \notin {"success", "failure"} => isLoading' = isLoading
     /\ ~isLoading => ~isLoading']_vars

\* C18 witness: the third fetch in a row has failed with retry budget left, and the
\* monitor is still loading
C18_Witness ==
  /\ Mounted
  /\ ev.type = "failure"
  /\ ev.rc = MAX_RETRIES - 1
  /\ isLoading

\* C19: while mounted, isRefreshing is true exactly while a manual fetch is in flight,
\* and at most one manual fetch is in flight.
C19_RefreshingIffManualInFlight ==
  Mounted => /\ isRefreshing <=> \E f \in BagToSet(inflight) : f.manual
             /\ BagCardinality(inflight) - BagCardinality(Automatic(inflight)) <= 1

\* C19 witness: a manual fetch has failed with retry budget left; its retry is
\* scheduled and isRefreshing is false again
C19_Witness ==
  /\ Mounted
  /\ ev.type = "failure"
  /\ ev.manual
  /\ ev.rc < MAX_RETRIES
  /\ RetryTimers(timers) # {}
  /\ ~isRefreshing

\* the fetch attempts made so far, while no request has succeeded yet
Attempts == (MAX_RETRIES - failuresLeft) + BagCardinality(inflight)

\* the time of the k-th attempt of the scenario: 0, 2000, 6000, 14000
AttemptTime(k) == RETRY_DELAY * (2^(k - 1) - 1)

\* C20: when the endpoint fails MAX_RETRIES = 3 times and then succeeds, the attempts
\* are made at t = 0, 2000, 6000 and 14000; after the 3rd failure the status is absent
\* and isLoading is false; after the 4th attempt succeeds the status is populated.
C20_ScenarioTimes ==
  [][/\ (Mounted /\ lastUpdate = NoDate)
          => \A k \in (Attempts + 1)..Attempts' :
               k <= MAX_RETRIES + 1 => now' = AttemptTime(k)
     /\ (Mounted /\ ev'.type = "failure" /\ failuresLeft' = 0)
          => configStatus' = NoStatus /\ ~isLoading'
     /\ (Mounted /\ ev'.type = "success" /\ lastUpdate = NoDate)
          => configStatus' = ValidPayload]_vars

\* C21: hiding the tab leaves configStatus, lastUpdate, error and retryCount (and the
\* two flags) as they were, and no request in flight is dropped.
C21_HideKeepsData ==
  [][ev'.type = "hide" => (UNCHANGED state /\ inflight' = inflight)]_vars

\* C21 witness: the tab was hidden while a status and the time of its update were
\* displayed; both are still there
C21_Witness ==
  /\ ev.type = "hide"
  /\ hidden
  /\ configStatus = ValidPayload
  /\ lastUpdate # NoDate

\* C22: a transport failure, a non-2xx status and a malformed body all end in the same
\* branch: the error is recorded, the request is over, and whether a retry is
\* scheduled or the exhausted branch is taken depends on the observed retryCount only.
C22_FailuresShareBranch ==
  [][ev'.type = "failure"
       => /\ Mounted => error' \in {ErrorMessage(k) : k \in FailureKinds}
          /\ BagCardinality(inflight') = BagCardinality(inflight) - 1
          /\ ev'.rc < MAX_RETRIES
               => \E t \in NewRetryTimers :
                    /\ timers' = timers \cup {t}
                    /\ t.rc = ev'.rc
                    /\ t.due = RETRY_DELAY * 2^(ev'.rc)
          /\ ev'.rc >= MAX_RETRIES
               => /\ timers' = timers
                  /\ Mounted => (configStatus' = NoStatus /\ ~isLoading')]_vars

\* C22 witness: a malformed body was received by a closure without retry budget; it
\* took the exhausted branch and its error is recorded
C22_Witness ==
  /\ Mounted
  /\ ev.type = "failure"
  /\ ev.rc >= MAX_RETRIES
  /\ error = ErrorMessage("parse")
  /\ configStatus = NoStatus
  /\ ~isLoading

C24_RetryFiresOneFetch ==
  [][ev'.type = "retry"
       => BagCardinality(inflight') = BagCardinality(inflight) + 1]_vars

\* C25: in a run of failures from mount on, the k-th retry timer is armed with delay
\* RETRY_DELAY * 2^(k-1), and the fetch a retry timer starts evaluates its retry
\* budget with the retryCount the firing has just incremented.
C25_BackoffGrows ==
  [][/\ (Mounted /\ ev'.type = "failure" /\ lastUpdate = NoDate)
          => \E t \in NewRetryTimers :
               t.due = RETRY_DELAY * 2^(MAX_RETRIES - failuresLeft' - 1)
     /\ (Mounted /\ ev'.type = "retry") => ev'.rc = retryCount']_vars

\* C26: at most one retry timer is pending at any time, and retryTimeoutRef holds it.
C26_OneRetryTimer ==
  /\ Cardinality(RetryTimers(timers)) <= 1
  /\ \A t \in RetryTimers(timers) : t.id = retryTimeoutRef

\* the monitor shows a status, no error, and has its full retry budget
Recovered == configStatus # NoStatus /\ error = NULL /\ retryCount = 0

\* C27: mounted and visible, once every request succeeds the monitor eventually shows
\* a status with no error and retryCount 0, and stays that way.
C27_EventuallyRecovered == <>[]Recovered

\* C27 witness: a request of a closure whose retry budget was used up has succeeded,
\* and the monitor is recovered
C27_Witness ==
  /\ Mounted
  /\ ev.type = "success"
  /\ ev.rc >= MAX_RETRIES
  /\ Recovered

\* C28: in every reachable state, if the status is absent and isLoading is false then
\* an error is present.
C28_AbsentStatusHasError ==
  (configStatus = NoStatus /\ ~isLoading) => error # NULL

\* C28 witness: the exhausted branch has cleared the status and ended loading, and
\* the error of that failure is recorded
C28_Witness ==
  /\ Mounted
  /\ ev.type = "failure"
  /\ ev.rc >= MAX_RETRIES
  /\ configStatus = NoStatus
  /\ ~isLoading
  /\ error = ErrorMessage("transport")

\* C29: a failed fetch never changes lastUpdate, and with retry budget left it never
\* changes configStatus; lastUpdate is written only by a success, configStatus only
\* by a success or by the exhausted branch.
C29_FailureFrame ==
  [][/\ ev'.type = "failure" => lastUpdate' = lastUpdate
     /\ (ev'.type = "failure" /\ ev'.rc < MAX_RETRIES) => configStatus' = configStatus
     /\ lastUpdate' # lastUpdate => ev'.type = "success"
     /\ configStatus' # configStatus
          => \/ ev'.type = "success"
             \/ ev'.type = "failure" /\ ev'.rc >= MAX_RETRIES]_vars

\* C29 witness: a fetch failed with retry budget left while a status and its time
\* were displayed; both are still there, next to the error
C29_Witness ==
  /\ Mounted
  /\ ev.type = "failure"
  /\ ev.rc < MAX_RETRIES
  /\ error # NULL
  /\ configStatus = ValidPayload
  /\ lastUpdate # NoDate

\* the manual refresh fetches in flight
ManualInFlight == BagCardinality(inflight) - BagCardinality(Automatic(inflight))

\* C30: at most one manual refresh fetch is in flight at any time, and a refresh is
\* started only while none is under way.
C30_OneManualInFlight ==
  [][/\ ManualInFlight' <= 1
     /\ ev'.type = "refresh"
          => (~isRefreshing /\ ManualInFlight = 0 /\ ManualInFlight' = 1)]_vars

\* C30 witness: the user has clicked Refresh a second time, after the first manual
\* fetch had completed; one manual fetch is in flight
C30_Witness ==
  /\ Mounted
  /\ ev.type = "refresh"
  /\ eventsLeft = ClickEvents - 2
  /\ isRefreshing
  /\ ManualInFlight = 1

====
